---- MODULE Spec2Model ----
(***************************************************************************)
(* DDSketch (GraphMetrics/sketches-go): the sparse bucket store, the       *)
(* linearly interpolated index mapping and the sketch that composes them.  *)
(*                                                                         *)
(* Numbers.  Counts are Go int32: additions wrap modulo 2^32 (Int32Add).   *)
(* Sketch values are float64; the model draws them from a grid of dyadic   *)
(* rationals n/4 (the integer n stands for n/4), on which every float64    *)
(* operation of the mapping is exact, plus +Inf (PosInf).  Fixed-point     *)
(* quantities of the mapping are integers scaled by Scale.                 *)
(***************************************************************************)
EXTENDS Integers, Sequences, FiniteSets, TLC

VARIABLES
    sk,        \* sketch id -> DDSketch {IndexMapping, store, zeroCount}
    st,        \* store id -> SparseStore used directly through the Store interface
    added,     \* history: sketch id -> (value -> count of additions received)
    last,      \* the last call: its name, receiver, outcome and returned value
    panicked,  \* a Go runtime panic has aborted the program
    steps      \* number of mutating calls made so far

vars == <<sk, st, added, last, panicked, steps>>

-----------------------------------------------------------------------------
(* Bounds of the model *)

MaxSteps == 3

SketchIds == {1, 2}
StoreIds == {1, 2}

-----------------------------------------------------------------------------
(* int32 arithmetic  *)

MaxInt32 == 2147483647
MinInt32 == -MaxInt32 - 1

\* a + b in int32: Go wraps silently on overflow
Int32Add(a, b) ==
    IF a > 0 /\ b > 0 /\ a > MaxInt32 - b
    THEN ((a - MaxInt32) - 1) + ((b - MaxInt32) - 1)
    ELSE IF a < 0 /\ b < 0 /\ a < MinInt32 - b
    THEN ((a + MaxInt32) + 1) + ((b + MaxInt32) + 1)
    ELSE a + b

Abs(x) == IF x < 0 THEN -x ELSE x
Max2(x, y) == IF x >= y THEN x ELSE y

-----------------------------------------------------------------------------
(* LinearlyInterpolatedMapping on the dyadic grid.                         *)
(* A grid value n stands for the float64 n/4; Scale is the fixed-point     *)
(* scale of approximateLog, multiplier and normalizedIndexOffset.          *)

Scale == 2 * 4

PosInf == MaxInt32          \* stands for +Inf
NegOne == 0 - 4                \* stands for -1.0

\* 1e-12 = 1 / (TolInvSqrt * TolInvSqrt)
TolInvSqrt == 1000000

\* the unbiased exponent e of n/4 = s * 2^e, 1 <= s < 2
RECURSIVE getExponent(_)
getExponent(n) ==
    IF n >= 8 THEN getExponent(n \div 2) + 1
    ELSE IF n < 4 THEN getExponent(2 * n) - 1
    ELSE 0

\* the significand s of n/4 = s * 2^e, scaled by Scale
RECURSIVE getSignificandPlusOne(_)
getSignificandPlusOne(n) ==
    IF n >= 8 THEN getSignificandPlusOne(n \div 2)
    ELSE IF n < 4 THEN getSignificandPlusOne(2 * n)
    ELSE n * (Scale \div 4)

\* sig * 2^exponent as the pair of its fields (sig scaled by Scale)
buildFloat64(exponent, significandPlusOne) ==
    [kind |-> "num", exp |-> exponent, sig |-> significandPlusOne]

ZeroFloat == [kind |-> "num", exp |-> 0, sig |-> 0]
NaN == [kind |-> "nan", exp |-> 0, sig |-> 0]
OutOfRangeFloat == [kind |-> "out of range", exp |-> 0, sig |-> 0]

MaxInt16 == 32767
MinInt16 == -32768

\* exponent + significand, scaled by Scale
approximateLog(n) == getExponent(n) * Scale + getSignificandPlusOne(n)

approximateInverseLog(x) ==
    LET exponent == (x - Scale) \div Scale          \* math.Floor(x - 1)
        significandPlusOne == x - exponent * Scale
    IN  buildFloat64(exponent, significandPlusOne)

\* gamma = 2^gammaLog2, so that 1/math.Log2(gamma) is exact
NewLinearlyInterpolatedMappingWithGamma(gammaLog2, indexOffset) ==
    LET multiplier == Scale \div gammaLog2
    IN  [gammaLog2 |-> gammaLog2,
         multiplier |-> multiplier,
         normalizedIndexOffset |->
             indexOffset * Scale - (approximateLog(4) * multiplier) \div Scale]

\* |x - y| <= 1e-12 * max(|x|, |y|), on integers scaled by Scale
withinTolerance(x, y) ==
    LET small(z) == z = 0 \/ ((Scale \div Abs(z)) \div TolInvSqrt) >= TolInvSqrt
    IN  IF x = 0 \/ y = 0
        THEN small(x) /\ small(y)
        ELSE x = y \/ ((Max2(Abs(x), Abs(y)) \div Abs(x - y)) \div TolInvSqrt) >= TolInvSqrt

Equals(m, o) ==
    /\ withinTolerance(m.multiplier, o.multiplier)
    /\ withinTolerance(m.normalizedIndexOffset, o.normalizedIndexOffset)

\* int(x) of Go: truncation toward zero of a Scale-scaled number
Trunc(x) == IF x >= 0 THEN x \div Scale ELSE -((-x) \div Scale)

Index(m, value) ==
    LET index == (approximateLog(value) * m.multiplier) \div Scale + m.normalizedIndexOffset
    IN  IF index >= 0 THEN Trunc(index) ELSE Trunc(index) - 1

\* the result stands for sig/Scale * 2^exp * (1 + relativeAccuracy): the last
\* factor is the same for every index of one mapping and is left implicit
\* An index outside the int16 range the mapping produces (the store's maxIndex
\* sentinel) gives a float64 assembled from out-of-range exponent bits.
Value(m, index) ==
    IF index < MinInt16 \/ index > MaxInt16
    THEN OutOfRangeFloat
    ELSE approximateInverseLog(((index * Scale - m.normalizedIndexOffset) * Scale)
                                   \div m.multiplier)

\* value > m.MaxIndexableValue(): the maximum is about 2^1023, above every grid value
AboveMaxIndexableValue(m, value) == value = PosInf

\* value > m.MinIndexableValue(): the minimum is below 2^-1000, under every positive grid value
AboveMinIndexableValue(m, value) == value > 0

-----------------------------------------------------------------------------
(* SparseStore.  bins is a Go map[int]int32; nil is TRUE for the nil map,  *)
(* which reads as empty and panics on assignment.  Operations that can     *)
(* panic return the store as the panic leaves it.                          *)

EmptyBins == [k \in {} |-> 0]

\* s.bins[k], the zero value when k is absent
BinCount(s, k) == IF k \in DOMAIN s.bins THEN s.bins[k] ELSE 0

\* bins after bins[index] += count
BinsPlus(bins, index, count) ==
    [k \in DOMAIN bins \cup {index} |->
        IF k = index
        THEN Int32Add(IF index \in DOMAIN bins THEN bins[index] ELSE 0, count)
        ELSE bins[k]]

NewBin(index, count) ==
    IF count < 0
    THEN [err |-> TRUE, index |-> 0, count |-> 0]
    ELSE [err |-> FALSE, index |-> index, count |-> count]

NewSparseStore ==
    [nil |-> TRUE, bins |-> EmptyBins, count |-> 0,
     minIndex |-> MaxInt32, maxIndex |-> MinInt32]

\* mutant of StoreAddWithCount: the total count is not updated
StoreAddWithCountNoTotal(s, index, count) ==
    IF count = 0
    THEN [store |-> s, panic |-> FALSE]
    ELSE LET s1 == [s EXCEPT !.maxIndex = IF index > @ THEN index ELSE @,
                             !.minIndex = IF index < @ THEN index ELSE @]
         IN  IF s.nil
             THEN [store |-> s1, panic |-> TRUE]
             ELSE [store |-> [s1 EXCEPT !.bins = BinsPlus(@, index, count)],
                   panic |-> FALSE]

StoreAddWithCount(s, index, count) ==
    IF count = 0
    THEN [store |-> s, panic |-> FALSE]
    ELSE LET s1 == [s EXCEPT !.maxIndex = IF index > @ THEN index ELSE @,
                             !.minIndex = IF index < @ THEN index ELSE @]
         IN  IF s.nil
             THEN [store |-> s1, panic |-> TRUE]
             ELSE [store |-> [s1 EXCEPT !.bins = BinsPlus(@, index, count),
                                        !.count = Int32Add(@, count)],
                   panic |-> FALSE]

StoreAdd(s, index) == StoreAddWithCount(s, index, 1)

StoreAddBin(s, bin) ==
    IF bin.count = 0
    THEN [store |-> s, panic |-> FALSE]
    ELSE StoreAddWithCount(s, bin.index, bin.count)

StoreCopy(s) ==
    [nil |-> FALSE, bins |-> s.bins, count |-> s.count,
     minIndex |-> s.minIndex, maxIndex |-> s.maxIndex]

StoreIsEmpty(s) == s.count = 0

MaxIndex(s) ==
    IF StoreIsEmpty(s) THEN [err |-> TRUE, index |-> 0]
    ELSE [err |-> FALSE, index |-> s.maxIndex]

MinIndex(s) ==
    IF StoreIsEmpty(s) THEN [err |-> TRUE, index |-> 0]
    ELSE [err |-> FALSE, index |-> s.minIndex]

TotalCount(s) == s.count

SetMin(S) == CHOOSE x \in S : \A y \in S : x <= y

\* the ascending sequence of the keys in S, each repeated mult[k] times
RECURSIVE SortedRepeat(_, _)
SortedRepeat(S, mult) ==
    IF S = {} THEN <<>>
    ELSE LET k == SetMin(S)
         IN  [i \in 1..mult[k] |-> k] \o SortedRepeat(S \ {k}, mult)

\* keys := make([]int, len(s.bins)); append every key; sort.Ints(keys)
\* make gives len(s.bins) zeros, which stay in the slice with the keys
KeysOf(s) ==
    LET n == Cardinality(DOMAIN s.bins)
        S == DOMAIN s.bins \cup (IF n > 0 THEN {0} ELSE {})
        mult == [k \in S |-> (IF k \in DOMAIN s.bins THEN 1 ELSE 0)
                             + (IF k = 0 THEN n ELSE 0)]
    IN  SortedRepeat(S, mult)

\* float64(n) > rank for a rank w + h/2 (h in {0, 1}) and an integer n
GreaterThanRank(n, rank) == n > rank.whole

\* for _, k := range keys { n += s.bins[k]; if float64(n) > rank { return k } }
RECURSIVE KeyScan(_, _, _, _, _)
KeyScan(s, keys, i, n, rank) ==
    IF i > Len(keys) THEN s.maxIndex
    ELSE LET n1 == Int32Add(n, BinCount(s, keys[i]))
         IN  IF GreaterThanRank(n1, rank) THEN keys[i]
             ELSE KeyScan(s, keys, i + 1, n1, rank)

KeyAtRank(s, rank) == KeyScan(s, KeysOf(s), 1, 0, rank)

\* mutant of StoreMergeWith: s.bins[k] = v in place of s.bins[k] += v
StoreMergeWithOverwrite(s, o) ==
    IF StoreIsEmpty(o)
    THEN [store |-> s, panic |-> FALSE]
    ELSE LET s1 == [s EXCEPT !.minIndex = IF o.minIndex < @ THEN o.minIndex ELSE @,
                             !.maxIndex = IF o.maxIndex > @ THEN o.maxIndex ELSE @]
         IN  IF s.nil /\ DOMAIN o.bins # {}
             THEN [store |-> s1, panic |-> TRUE]
             ELSE [store |->
                     [s1 EXCEPT !.bins = [k \in DOMAIN s.bins \cup DOMAIN o.bins |->
                                            IF k \in DOMAIN o.bins
                                            THEN o.bins[k]
                                            ELSE s.bins[k]],
                                !.count = Int32Add(@, o.count)],
                   panic |-> FALSE]

\* the same-type path: other is always a *SparseStore here
StoreMergeWith(s, o) ==
    IF StoreIsEmpty(o)
    THEN [store |-> s, panic |-> FALSE]
    ELSE LET s1 == [s EXCEPT !.minIndex = IF o.minIndex < @ THEN o.minIndex ELSE @,
                             !.maxIndex = IF o.maxIndex > @ THEN o.maxIndex ELSE @]
         IN  IF s.nil /\ DOMAIN o.bins # {}
             THEN [store |-> s1, panic |-> TRUE]
             ELSE [store |->
                     [s1 EXCEPT !.bins = [k \in DOMAIN s.bins \cup DOMAIN o.bins |->
                                            IF k \in DOMAIN o.bins
                                            THEN Int32Add(BinCount(s, k), o.bins[k])
                                            ELSE s.bins[k]],
                                !.count = Int32Add(@, o.count)],
                   panic |-> FALSE]

-----------------------------------------------------------------------------
(* DDSketch.  Operations return the sketch as the call leaves it, whether  *)
(* the call returned an error, and whether it panicked.                    *)

NewDDSketch(indexMapping, store) ==
    [mapping |-> indexMapping, store |-> store, zeroCount |-> 0]

\* mutant of AddWithCount: the count is validated after the insertion
AddWithCountLateCheck(s, value, count) ==
    IF value < 0 \/ AboveMaxIndexableValue(s.mapping, value)
    THEN [sketch |-> s, err |-> TRUE, panic |-> FALSE]
    ELSE LET s1 == IF AboveMinIndexableValue(s.mapping, value)
                   THEN [s EXCEPT !.store =
                            StoreAddWithCount(@, Index(s.mapping, value), count).store]
                   ELSE [s EXCEPT !.zeroCount = Int32Add(@, count)]
         IN  [sketch |-> s1, err |-> count < 0,
              panic |-> AboveMinIndexableValue(s.mapping, value)
                        /\ StoreAddWithCount(s.store, Index(s.mapping, value), count).panic]

AddWithCount(s, value, count) ==
    IF value < 0 \/ AboveMaxIndexableValue(s.mapping, value)
    THEN [sketch |-> s, err |-> TRUE, panic |-> FALSE]
    ELSE IF count < 0
    THEN [sketch |-> s, err |-> TRUE, panic |-> FALSE]
    ELSE IF AboveMinIndexableValue(s.mapping, value)
    THEN LET r == StoreAddWithCount(s.store, Index(s.mapping, value), count)
         IN  [sketch |-> [s EXCEPT !.store = r.store], err |-> FALSE, panic |-> r.panic]
    ELSE [sketch |-> [s EXCEPT !.zeroCount = Int32Add(@, count)],
          err |-> FALSE, panic |-> FALSE]

Add(s, value) == AddWithCount(s, value, 1)

\* the struct literal names IndexMapping and store only: zeroCount starts at 0
Copy(s) ==
    [mapping |-> s.mapping, store |-> StoreCopy(s.store), zeroCount |-> 0]

GetCount(s) == Int32Add(s.zeroCount, TotalCount(s.store))

IsEmpty(s) == s.zeroCount = 0 /\ StoreIsEmpty(s.store)

\* quantile * float64(c) for the quantile qNum/2: the float64 w + h/2
QuantileTimes(qNum, c) ==
    [whole |-> IF qNum = 0 THEN 0 ELSE IF qNum = 2 THEN c ELSE c \div 2,
     half  |-> IF qNum = 1 THEN c % 2 ELSE 0]

\* rank - float64(z) for rank >= z; a difference above MaxInt32 compares with
\* every int32 as MaxInt32 does
RankMinus(rank, z) ==
    [whole |-> IF z < 0 /\ rank.whole > MaxInt32 + z THEN MaxInt32 ELSE rank.whole - z,
     half  |-> rank.half]

GetValueAtQuantile(s, qNum) ==
    IF qNum < 0 \/ qNum > 2
    THEN [value |-> NaN, err |-> TRUE]
    ELSE LET count == GetCount(s)
         IN  IF count = 0
             THEN [value |-> NaN, err |-> TRUE]
             ELSE LET rank == QuantileTimes(qNum, Int32Add(count, -1))
                  IN  IF rank.whole < s.zeroCount
                      THEN [value |-> ZeroFloat, err |-> FALSE]
                      ELSE [value |-> Value(s.mapping,
                                            KeyAtRank(s.store, RankMinus(rank, s.zeroCount))),
                            err |-> FALSE]

GetMaxValue(s) ==
    IF ~StoreIsEmpty(s.store)
    THEN [value |-> Value(s.mapping, MaxIndex(s.store).index), err |-> FALSE]
    ELSE [value |-> ZeroFloat, err |-> FALSE]

GetMinValue(s) ==
    IF s.zeroCount > 0
    THEN [value |-> ZeroFloat, err |-> FALSE]
    ELSE LET r == MinIndex(s.store)
         IN  IF r.err THEN [value |-> NaN, err |-> TRUE]
             ELSE [value |-> Value(s.mapping, r.index), err |-> FALSE]

MergeWith(s, other) ==
    IF ~Equals(s.mapping, other.mapping)
    THEN [sketch |-> s, err |-> TRUE, panic |-> FALSE]
    ELSE LET r == StoreMergeWith(s.store, other.store)
         IN  IF r.panic
             THEN [sketch |-> [s EXCEPT !.store = r.store], err |-> FALSE, panic |-> TRUE]
             ELSE [sketch |-> [s EXCEPT !.store = r.store,
                                        !.zeroCount = Int32Add(@, other.zeroCount)],
                   err |-> FALSE, panic |-> FALSE]

-----------------------------------------------------------------------------
(* Inputs *)

\* sketch values -1.0, 0, 1.0, 2.0, +Inf
Values == {NegOne, 0, 4, 8, PosInf}
\* the values a sketch accepts
Accepted == {v \in Values : v >= 0 /\ v # PosInf}
Counts == {-1, 0, MaxInt32}
\* quantiles -1/2, 0, 1/2, 1, 3/2 as numerators over 2
Quantiles == {-1, 0, 1, 2, 3}
\* bucket indexes and ranks handed to a store directly
Indices == {-1, 0, 1}
Ranks == [whole : 0..2, half : {0, 1}]
Mappings == {NewLinearlyInterpolatedMappingWithGamma(1, 0),
             NewLinearlyInterpolatedMappingWithGamma(2, 0)}
\* the stores a caller starts from: NewSparseStore() and NewSparseStore().Copy()
FreshStores == {NewSparseStore, StoreCopy(NewSparseStore)}

-----------------------------------------------------------------------------
(* History of additions: counts that saturate at Over *)

Over == 0 - 1

SatAdd(a, b) ==
    IF a = Over \/ b = Over THEN Over
    ELSE IF a > MaxInt32 - b THEN Over
    ELSE a + b

NoneAdded == [v \in Accepted |-> 0]

RECURSIVE SatSum(_, _)
SatSum(f, S) ==
    IF S = {} THEN 0
    ELSE LET v == SetMin(S) IN SatAdd(f[v], SatSum(f, S \ {v}))

\* the sum of the counts of all additions sketch i received, Over above MaxInt32
Received(i) == SatSum(added[i], Accepted)

-----------------------------------------------------------------------------
(* The state machine.  A call that changes a sketch or a store counts as a *)
(* step, and at most MaxSteps are taken.  A call that changes nothing (a   *)
(* query, a call that returns an error, a no-op) is explored from the      *)
(* state a changing call left: after it the objects are as before, so the  *)
(* same states are reached as when such calls follow one another.          *)

NoFloat == [kind |-> "none", exp |-> 0, sig |-> 0]

Call(op, id, other, arg, err, value, changed) ==
    [op |-> op, id |-> id, other |-> other, arg |-> arg, err |-> err,
     value |-> value, changed |-> changed]

Settled == last.changed

NoSketches == [i \in SketchIds |-> NewDDSketch(CHOOSE m \in Mappings : TRUE, NewSparseStore)]
NoStores == [a \in StoreIds |-> NewSparseStore]

Init ==
    /\ sk \in [SketchIds -> {NewDDSketch(m, s) : m \in Mappings, s \in FreshStores}]
    /\ sk[1].mapping.gammaLog2 = 1
    /\ st = NoStores
    /\ added = [i \in SketchIds |-> NoneAdded]
    /\ last = Call("new", 0, 0, 0, FALSE, NoFloat, TRUE)
    /\ panicked = FALSE
    /\ steps = 0

\* a call on sketch i that leaves it as sketch s1 with the history hist
SketchStep(op, i, other, arg, s1, hist, err, panic, value) ==
    LET changed == s1 # sk[i] \/ hist # added[i] \/ panic
    IN  /\ ~panicked
        /\ IF changed THEN steps < MaxSteps ELSE Settled
        /\ sk' = [sk EXCEPT ![i] = s1]
        /\ added' = [added EXCEPT ![i] = hist]
        /\ last' = Call(op, i, other, arg, err, value, changed)
        /\ panicked' = panic
        /\ steps' = IF changed THEN steps + 1 ELSE steps
        /\ UNCHANGED st

\* r is what AddWithCount or MergeWith returned, hist the history on success
SketchCall(op, i, other, r, hist) ==
    SketchStep(op, i, other, 0, r.sketch,
               IF r.err \/ r.panic THEN added[i] ELSE hist, r.err, r.panic, NoFloat)

SkAdd(i, v) ==
    SketchCall("Add", i, 0, Add(sk[i], v),
               IF v \in Accepted THEN [added[i] EXCEPT ![v] = SatAdd(@, 1)] ELSE added[i])

SkAddWithCount(i, v, c) ==
    SketchCall("AddWithCount", i, 0, AddWithCount(sk[i], v, c),
               IF v \in Accepted /\ c >= 0
               THEN [added[i] EXCEPT ![v] = SatAdd(@, c)] ELSE added[i])

SkMergeWith(i, o) ==
    SketchCall("MergeWith", i, o, MergeWith(sk[i], sk[o]),
               [v \in Accepted |-> SatAdd(added[i][v], added[o][v])])

\* sk[t] = sk[i].Copy(): the copy stands for the additions the original received
SkCopy(i, t) ==
    SketchStep("Copy", t, i, 0, Copy(sk[i]), added[i], FALSE, FALSE, NoFloat)

\* r is the (value, error) pair a query returned
SketchQuery(op, i, arg, r) ==
    SketchStep(op, i, 0, arg, sk[i], added[i], r.err, FALSE, r.value)

SkGetValueAtQuantile(i, q) ==
    SketchQuery("GetValueAtQuantile", i, q, GetValueAtQuantile(sk[i], q))

SkGetMaxValue(i) == SketchQuery("GetMaxValue", i, 0, GetMaxValue(sk[i]))

SkGetMinValue(i) == SketchQuery("GetMinValue", i, 0, GetMinValue(sk[i]))

NextNoCopy ==
    \/ \E i \in SketchIds, v \in Values : SkAdd(i, v)
    \/ \E i \in SketchIds, v \in Values, c \in Counts : SkAddWithCount(i, v, c)
    \/ \E i, o \in SketchIds : SkMergeWith(i, o)
    \/ \E i \in SketchIds, q \in Quantiles : SkGetValueAtQuantile(i, q)
    \/ \E i \in SketchIds : SkGetMaxValue(i)
    \/ \E i \in SketchIds : SkGetMinValue(i)

Next ==
    \/ NextNoCopy
    \/ \E i, t \in SketchIds : SkCopy(i, t)

\* sketches built by NewDDSketch and used through every operation
Spec == Init /\ [][Next]_vars

\* the same without Copy: sketches that only receive additions and merges
SpecNoCopy == Init /\ [][NextNoCopy]_vars

-----------------------------------------------------------------------------
(* Stores used directly through the Store interface *)

InitStore ==
    /\ sk = NoSketches
    /\ st \in [StoreIds -> FreshStores]
    /\ added = [i \in SketchIds |-> NoneAdded]
    /\ last = Call("new", 0, 0, 0, FALSE, 0, TRUE)
    /\ panicked = FALSE
    /\ steps = 0

\* a call on store a that leaves it as store s1
StoreStep(op, a, other, arg, s1, err, panic, value) ==
    LET changed == s1 # st[a] \/ panic
    IN  /\ ~panicked
        /\ IF changed THEN steps < MaxSteps ELSE Settled
        /\ st' = [st EXCEPT ![a] = s1]
        /\ last' = Call(op, a, other, arg, err, value, changed)
        /\ panicked' = panic
        /\ steps' = IF changed THEN steps + 1 ELSE steps
        /\ UNCHANGED <<sk, added>>

\* Add, AddWithCount, AddBin and MergeWith return nothing: r is the store and
\* whether the call panicked
StoreCall(op, a, other, arg, r) ==
    StoreStep(op, a, other, arg, r.store, FALSE, r.panic, 0)

StAdd(a, index) == StoreCall("Add", a, 0, 1, StoreAdd(st[a], index))

StAddWithCount(a, index, count) ==
    StoreCall("AddWithCount", a, 0, count, StoreAddWithCount(st[a], index, count))

\* bin, err := NewBin(index, count); if err == nil { s.AddBin(*bin) }
StAddBin(a, index, count) ==
    LET bin == NewBin(index, count)
    IN  IF bin.err
        THEN StoreStep("NewBin", a, 0, count, st[a], TRUE, FALSE, 0)
        ELSE StoreCall("AddBin", a, 0, count, StoreAddBin(st[a], bin))

StMergeWith(a, b) == StoreCall("MergeWith", a, b, 0, StoreMergeWith(st[a], st[b]))

\* st[t] = st[a].Copy()
StCopy(a, t) == StoreStep("Copy", t, a, 0, StoreCopy(st[a]), FALSE, FALSE, 0)

StKeyAtRank(a, rank) ==
    StoreStep("KeyAtRank", a, 0, rank, st[a], FALSE, FALSE, KeyAtRank(st[a], rank))

StMinIndex(a) ==
    LET r == MinIndex(st[a])
    IN  StoreStep("MinIndex", a, 0, 0, st[a], r.err, FALSE, r.index)

StMaxIndex(a) ==
    LET r == MaxIndex(st[a])
    IN  StoreStep("MaxIndex", a, 0, 0, st[a], r.err, FALSE, r.index)

NextStore ==
    \/ \E a \in StoreIds, i \in Indices : StAdd(a, i)
    \/ \E a \in StoreIds, i \in Indices, c \in Counts : StAddWithCount(a, i, c)
    \/ \E a \in StoreIds, i \in Indices, c \in Counts : StAddBin(a, i, c)
    \/ \E a, b \in StoreIds : StMergeWith(a, b)
    \/ \E a, t \in StoreIds : StCopy(a, t)
    \/ \E a \in StoreIds, rank \in Ranks : StKeyAtRank(a, rank)
    \/ \E a \in StoreIds : StMinIndex(a)
    \/ \E a \in StoreIds : StMaxIndex(a)

SpecStore == InitStore /\ [][NextStore]_vars

-----------------------------------------------------------------------------
(* Claims about sketches that receive additions and merges (SpecNoCopy) *)

\* a + b is an int32: the addition does not wrap
Fits(a, b) ==
    /\ ~(a > 0 /\ b > 0 /\ a > MaxInt32 - b)
    /\ ~(a < 0 /\ b < 0 /\ a < MinInt32 - b)

\* r is the exact integer a + b
IsSum(r, a, b) == Fits(a, b) /\ r = a + b

\* C1, as amended: as long as the sum of the counts of all the additions a
\* sketch received, directly or through merges, is at most MaxInt32,
\* GetCount() equals that sum exactly.
CountConservation ==
    \A i \in SketchIds : Received(i) # Over => GetCount(sk[i]) = Received(i)

\* C1 as stated: GetCount() equals the sum of the counts of all additions
\* received, whatever the sum is (an int32 never equals a sum above MaxInt32).
CountConservationAnySum ==
    \A i \in SketchIds : Received(i) # Over /\ GetCount(sk[i]) = Received(i)

\* C1 witness: a sketch that holds a zero-counted value and a bucketed one,
\* part of them received through a successful merge.
CountConservationWitness ==
    /\ last.op = "MergeWith" /\ ~last.err /\ last.changed /\ ~panicked
    /\ sk[last.id].zeroCount > 0
    /\ TotalCount(sk[last.id].store) > 0
    /\ Received(last.id) >= 2
    /\ Received(last.id) # Over

\* the value at position pos of the ascending sorted multiset bag over S
RECURSIVE ElementAt(_, _, _)
ElementAt(bag, S, pos) ==
    LET v == SetMin(S)
    IN  IF S = {v} \/ pos < bag[v] THEN v
        ELSE ElementAt(bag, S \ {v}, pos - bag[v])

\* the nearest-rank answer for the quantile q/2 from the history of sketch i
NearestRankValue(i, q) ==
    LET floorRank == (q * (Received(i) - 1)) \div 2
    IN  IF floorRank < added[i][0] THEN ZeroFloat
        ELSE Value(sk[i].mapping, Index(sk[i].mapping, ElementAt(added[i], Accepted, floorRank)))

\* counts small enough that sums and ranks stay far from the int32 limits
SmallHistory(i) == \A v \in Accepted : added[i][v] # Over /\ added[i][v] <= MaxInt16

\* C2: on a non-empty sketch and for q in [0,1], GetValueAtQuantile(q) returns
\* 0 when rank < zeroCount and otherwise Value(k), k the bucket index of the
\* element at position floor(q*(n-1)) of the sorted multiset of added values.
NearestRankQuantile ==
    (/\ last.op = "GetValueAtQuantile"
     /\ last.arg \in 0..2
     /\ SmallHistory(last.id)
     /\ Received(last.id) > 0)
    => (~last.err /\ last.value = NearestRankValue(last.id, last.arg))

\* the merge of sketch last'.other into the distinct sketch last'.id succeeded
MergeStep ==
    /\ last'.op = "MergeWith" /\ ~last'.err /\ ~panicked'
    /\ last'.id # last'.other

AllKeys == Indices \cup UNION {DOMAIN sk[i].store.bins : i \in SketchIds}

\* the additions sketches i and o received sum, taken together, to at most
\* MaxInt32: no count of either has wrapped and none wraps when they merge
NoWrap(i, o) == SatAdd(Received(i), Received(o)) # Over

\* C4, as amended: after a successful merge of o into a distinct s with an
\* equal mapping, every bin count, zeroCount and GetCount() of s is the sum of
\* the two previous values, provided the counts of all the additions the two
\* sketches received sum to at most MaxInt32 (beyond it int32 counts wrap).
MergeExactUnion ==
    [][(MergeStep /\ NoWrap(last'.id, last'.other)) =>
        LET s == sk[last'.id]
            o == sk[last'.other]
            s1 == sk'[last'.id]
        IN  /\ \A k \in AllKeys :
                 IsSum(BinCount(s1.store, k), BinCount(s.store, k), BinCount(o.store, k))
            /\ IsSum(s1.zeroCount, s.zeroCount, o.zeroCount)
            /\ IsSum(GetCount(s1), GetCount(s), GetCount(o))]_vars

\* C4 as stated: the counts after the merge are the sums, whatever they are.
MergeExactUnionAnySum ==
    [][MergeStep =>
        LET s == sk[last'.id]
            o == sk[last'.other]
            s1 == sk'[last'.id]
        IN  /\ \A k \in AllKeys :
                 IsSum(BinCount(s1.store, k), BinCount(s.store, k), BinCount(o.store, k))
            /\ IsSum(s1.zeroCount, s.zeroCount, o.zeroCount)
            /\ IsSum(GetCount(s1), GetCount(s), GetCount(o))]_vars

\* C4 witness: a merge of a non-empty sketch into a distinct sketch that held
\* additions of its own, both with a bin at the same index.
MergeExactUnionWitness ==
    /\ last.op = "MergeWith" /\ ~last.err /\ ~panicked
    /\ last.id # last.other
    /\ Received(last.id) # Over
    /\ \E k \in AllKeys :
          /\ BinCount(sk[last.other].store, k) > 0
          /\ BinCount(sk[last.id].store, k) > BinCount(sk[last.other].store, k)

-----------------------------------------------------------------------------
(* Claims about sketches used through every operation (Spec) *)

\* C5: AddWithCount returns an error when value < 0, value > MaxIndexableValue()
\* or count < 0, MergeWith when the mappings are not Equal, GetValueAtQuantile
\* when q is outside [0,1] or the sketch is empty; and a call that returns an
\* error leaves every sketch (zeroCount, bins, total count, min and max index
\* of the receiver and of the merge argument) as it was.
FailureAtomicity ==
    [][/\ \A i \in SketchIds, v \in Values, c \in Counts :
            (/\ SkAddWithCount(i, v, c)
             /\ (v < 0 \/ AboveMaxIndexableValue(sk[i].mapping, v) \/ c < 0))
            => last'.err
       /\ \A i, o \in SketchIds :
            (SkMergeWith(i, o) /\ ~Equals(sk[i].mapping, sk[o].mapping))
            => last'.err
       /\ \A i \in SketchIds, q \in Quantiles :
            (SkGetValueAtQuantile(i, q) /\ (q < 0 \/ q > 2 \/ IsEmpty(sk[i])))
            => last'.err
       /\ (/\ last'.op \in {"Add", "AddWithCount", "MergeWith", "GetValueAtQuantile"}
           /\ last'.err)
            => sk' = sk]_vars

\* C5 witness: a merge refused for unequal mappings between two non-empty
\* sketches, one holding a zero-counted value and one holding a bin.
FailureAtomicityWitness ==
    /\ last.op = "MergeWith" /\ last.err
    /\ \A i \in SketchIds : ~IsEmpty(sk[i])
    /\ \E i \in SketchIds : sk[i].zeroCount > 0
    /\ \E i \in SketchIds : TotalCount(sk[i].store) > 0

\* C7: c = s.Copy() has the mapping, the zeroCount and the count at every bin
\* index of s, so c.GetCount() = s.GetCount() and c.IsEmpty() = s.IsEmpty().
CopyPreservesState ==
    (last.op = "Copy" /\ last.id # last.other)
    => LET c == sk[last.id]
           s == sk[last.other]
       IN  /\ c.mapping = s.mapping
           /\ c.zeroCount = s.zeroCount
           /\ \A k \in AllKeys : BinCount(c.store, k) = BinCount(s.store, k)
           /\ GetCount(c) = GetCount(s)
           /\ IsEmpty(c) = IsEmpty(s)

\* C10: GetMaxValue() and GetMinValue() return an error when the sketch is
\* empty, and no error when it is not.
MinMaxErrorWhenEmpty ==
    last.op \in {"GetMaxValue", "GetMinValue"}
    => (last.err <=> IsEmpty(sk[last.id]))

-----------------------------------------------------------------------------
(* Claims about stores (SpecStore) *)

\* every bin holds a positive count of moderate size
PositiveBins(s) == \A k \in DOMAIN s.bins : s.bins[k] > 0 /\ s.bins[k] <= MaxInt16

\* the sum of the counts of the bins with index <= k, each bin once
RECURSIVE SumBins(_, _)
SumBins(s, S) ==
    IF S = {} THEN 0
    ELSE LET j == SetMin(S) IN s.bins[j] + SumBins(s, S \ {j})

CumulativeCount(s, k) == SumBins(s, {j \in DOMAIN s.bins : j <= k})

\* C6: on a non-empty store KeyAtRank(rank), rank >= 0, returns the smallest
\* bin index whose cumulative count, each bin counted once, is greater than
\* rank, and maxIndex when rank >= TotalCount().
KeyAtRankSmallestIndex ==
    (/\ last.op = "KeyAtRank"
     /\ ~StoreIsEmpty(st[last.id])
     /\ PositiveBins(st[last.id]))
    => LET s == st[last.id]
           above == {k \in DOMAIN s.bins : GreaterThanRank(CumulativeCount(s, k), last.arg)}
       IN  last.value = IF above = {} THEN s.maxIndex ELSE SetMin(above)

\* C8: Store.AddWithCount(index, n) with n < 0 fails with an error and leaves
\* the store unchanged; with n = 0 it is a no-op.
StoreRejectsNegativeCount ==
    (last.op = "AddWithCount" /\ ~panicked)
    => /\ last.arg < 0 => (last.err /\ ~last.changed)
       /\ last.arg = 0 => (~last.err /\ ~last.changed)

NonZeroKeys(s) == {k \in DOMAIN s.bins : s.bins[k] # 0}

\* C9: MinIndex() and MaxIndex() return an error exactly when TotalCount() is
\* 0, and otherwise the smallest and the largest index with a nonzero count.
StoreExtrema ==
    \A a \in StoreIds :
        LET s == st[a]
        IN  /\ MinIndex(s).err <=> TotalCount(s) = 0
            /\ MaxIndex(s).err <=> TotalCount(s) = 0
            /\ TotalCount(s) # 0 =>
                 /\ NonZeroKeys(s) # {}
                 /\ \A k \in NonZeroKeys(s) : MinIndex(s).index <= k /\ k <= MaxIndex(s).index
                 /\ MinIndex(s).index \in NonZeroKeys(s)
                 /\ MaxIndex(s).index \in NonZeroKeys(s)

\* C11: on a store returned by NewSparseStore(), AddWithCount(index, n) with
\* n > 0 completes without a panic, raises the count stored at index and
\* TotalCount() by exactly n, leaves every other bin as it was, and after it
\* MinIndex() = MaxIndex() = index.
InsertionOnFreshStore ==
    [][\A a \in StoreIds, index \in Indices, count \in Counts :
        (/\ count > 0
         /\ st[a] = NewSparseStore
         /\ StAddWithCount(a, index, count))
        => /\ ~panicked'
           /\ BinCount(st'[a], index) = BinCount(st[a], index) + count
           /\ TotalCount(st'[a]) = TotalCount(st[a]) + count
           /\ \A k \in Indices \ {index} : BinCount(st'[a], k) = BinCount(st[a], k)
           /\ MinIndex(st'[a]) = [err |-> FALSE, index |-> index]
           /\ MaxIndex(st'[a]) = [err |-> FALSE, index |-> index]]_vars

====
